---- MODULE Spec2Model ----
(***************************************************************************)
(* The Truthly content script (class TruthlyExtension): settings, the     *)
(* per-page result cache, the debounced scan of the search results, the   *)
(* per-element analysis run with its network request, the rendered labels *)
(* and the SETTINGS_UPDATED / CLEAR_CACHE message handler.                 *)
(*                                                                         *)
(* JavaScript runs every handler to completion on one thread, so each     *)
(* handler (and each continuation after an await) is one action.  The     *)
(* MutationObserver callback is a microtask that runs right after the     *)
(* handler that changed the DOM, so it is part of that handler's action.  *)
(***************************************************************************)
EXTENDS Integers, Sequences, FiniteSets, Bags, TLC

\* Bounds of the model.
MaxInflight == 2      \* network requests outstanding for one element
MaxTimers == 2        \* pending setTimeout callbacks of waitForSearchResults

(***************************************************************************)
(* JavaScript values.  Text is a sequence of characters; a number n is    *)
(* kept in tenths (874 is 87.4) so that fractional confidences exist.     *)
(***************************************************************************)
Undef == [t |-> "undefined", s |-> <<>>, n |-> 0]
Str(cs) == [t |-> "string", s |-> cs, n |-> 0]
Num(k) == [t |-> "number", s |-> <<>>, n |-> k]

\* ToBoolean: undefined, "" and 0 are falsy.
Truthy(v) ==
    CASE v.t = "undefined" -> FALSE
      [] v.t = "string" -> v.s # <<>>
      [] v.t = "number" -> v.n # 0

UpperCase == <<"A","B","C","D","E","F","G","H","I","J","K","L","M",
               "N","O","P","Q","R","S","T","U","V","W","X","Y","Z">>
LowerCase == <<"a","b","c","d","e","f","g","h","i","j","k","l","m",
               "n","o","p","q","r","s","t","u","v","w","x","y","z">>

\* String.prototype.toLowerCase, character by character.
toLowerCase(cs) ==
    [i \in 1..Len(cs) |->
        IF \E j \in 1..Len(UpperCase) : UpperCase[j] = cs[i]
        THEN LowerCase[CHOOSE j \in 1..Len(UpperCase) : UpperCase[j] = cs[i]]
        ELSE cs[i]]

\* Math.round of a number in tenths: floor(x + 0.5).
MathRound(x) == (x + 5) \div 10

\* String.prototype.includes / startsWith on sequences of URL fragments.
includes(cs, pat) ==
    \E i \in 0..(Len(cs) - Len(pat)) : SubSeq(cs, i + 1, i + Len(pat)) = pat
startsWith(cs, pat) ==
    Len(cs) >= Len(pat) /\ SubSeq(cs, 1, Len(pat)) = pat

(***************************************************************************)
(* The page: the [data-ved] elements the scan finds.  Each has or lacks   *)
(* an a[href] descendant and an h3 / [role=heading] descendant.  An href  *)
(* is a sequence of fragments, split where the code's patterns can match. *)
(* The elements are not nested, and each has a snippet or a wrapped       *)
(* title, so that insertLabel puts what it inserts inside the element.    *)
(***************************************************************************)
UrlA == <<"http://", "example.com", "/a">>
UrlSearch == <<"https://", "www.", "google.com", "/search?q=x">>
UrlMaps == <<"https://", "maps.", "google.com", "/maps">>
UrlScript == <<"javascript:", "void(0)">>

Page == <<
    [link |-> TRUE,  href |-> UrlA,      title |-> TRUE],
    [link |-> TRUE,  href |-> UrlA,      title |-> FALSE],
    [link |-> TRUE,  href |-> UrlSearch, title |-> TRUE],
    [link |-> TRUE,  href |-> UrlMaps,   title |-> TRUE],
    [link |-> TRUE,  href |-> UrlScript, title |-> TRUE],
    [link |-> FALSE, href |-> <<>>,      title |-> TRUE] >>

Elements == DOMAIN Page

(***************************************************************************)
(* Server data and responses.                                              *)
(***************************************************************************)
Chars(w) ==
    CASE w = "Real" -> <<"R","e","a","l">>
      [] w = "REAL" -> <<"R","E","A","L">>
      [] w = "real" -> <<"r","e","a","l">>
      [] w = "trustworthy" -> <<"t","r","u","s","t","w","o","r","t","h","y">>
      [] w = "Trustworthy" -> <<"T","r","u","s","t","w","o","r","t","h","y">>
      [] w = "fake" -> <<"f","a","k","e">>
      [] w = "ok" -> <<"o","k">>
      [] w = "X" -> <<"X">>
      [] w = "" -> <<>>

NoSummary == <<"No summary available">>
DefaultModel == <<"BART/LLaMA">>
ErrorSummary == <<"Unable to analyze this content. Click retry or refresh the page.">>

Data(l, c, s, m) == [label |-> l, confidence |-> c, summary |-> s, model |-> m]

\* The spec's scenario response, and responses that are off in one way each.
DataReal == Data(Str(Chars("Real")), Num(874), Str(Chars("ok")), Str(Chars("X")))
DataFake == Data(Str(Chars("fake")), Num(1500), Undef, Undef)
DataNoLabel == Data(Undef, Num(500), Str(Chars("ok")), Undef)
DataNumLabel == Data(Num(50), Num(500), Str(Chars("ok")), Undef)

NoData == Data(Undef, Undef, Undef, Undef)

\* What fetch produces: a transport error, or a status with a body that
\* parses as JSON (json) into {success, data?} or does not.
Resp(k, st, js, su, hd, d) ==
    [kind |-> k, status |-> st, json |-> js, success |-> su, hasData |-> hd, data |-> d]

NoResp == Resp("none", 0, FALSE, FALSE, FALSE, NoData)

Responses ==
    { Resp("transport", 0, FALSE, FALSE, FALSE, NoData),
      Resp("http", 500, TRUE, FALSE, FALSE, NoData),
      Resp("http", 200, FALSE, FALSE, FALSE, NoData),
      Resp("http", 200, TRUE, FALSE, FALSE, NoData),
      Resp("http", 200, TRUE, TRUE, FALSE, NoData) }
    \cup { Resp("http", 200, TRUE, TRUE, TRUE, d) :
             d \in {DataReal, DataFake, DataNoLabel, DataNumLabel} }

\* Response.ok
ok(resp) == resp.kind = "http" /\ resp.status \in 200..299

(***************************************************************************)
(* State.                                                                  *)
(***************************************************************************)
VARIABLES
    phase,      \* init(): "loading" (awaiting loadSettings), "running"
                \* (observer and message listener installed), "stopped"
    settings,   \* this.settings
    cache,      \* this.cache: a function from the cached URLs to data
    proc,       \* dataset.truthlyProcessing per element: "unset","true","false"
    loading,    \* whether the element holds a .truthly-loading indicator
    labels,     \* the bag of .truthly-label elements of each element
    inflight,   \* runs of processSearchResult suspended in fetch, per element
    timers,     \* pending waitForSearchResults timeouts
    ev,         \* the last handler that ran and what it did
    afterClear, \* elements whose URL was cached at a CLEAR_CACHE, not run since
    rewritten,  \* URLs written to the cache since the last CLEAR_CACHE
    failed,     \* elements whose last finished run ended in failure, with
                \* no retry click and no CLEAR_CACHE since
    nin,        \* input of a stand-alone displayLabel call
    nout        \* its outcome

pageVars == <<phase, settings, cache, proc, loading, labels, inflight, timers,
              ev, afterClear, rewritten, failed>>
normVars == <<nin, nout>>
vars == <<phase, settings, cache, proc, loading, labels, inflight, timers,
          ev, afterClear, rewritten, failed, nin, nout>>


(***************************************************************************)
(* Rendering.                                                              *)
(***************************************************************************)
\* The .truthly-label element displayLabel builds: class trustworthy or
\* untrustworthy, the confidence, the tooltip's summary and model, and a
\* Feedback button.
TrustLabel(tw, conf, sum, mod) ==
    [kind |-> "trust", trustworthy |-> tw, confidence |-> conf,
     summary |-> sum, model |-> mod, retry |-> FALSE]

\* The .truthly-label.error element displayErrorLabel builds: 'Analysis
\* Failed' with a Retry button.
ErrorLabel ==
    [kind |-> "error", trustworthy |-> FALSE, confidence |-> 0,
     summary |-> ErrorSummary, model |-> <<>>, retry |-> TRUE]

\* What a rendering call did: the labels it inserted, and whether it threw.
Outcome(added, threw) == [added |-> added, threw |-> threw]

\* insertLabel: the element's labels with the new ones added.
insertLabel(present, added) == present (+) added

displayErrorLabel == Outcome(SetToBag({ErrorLabel}), FALSE)

isTrustworthyMutCase(cs) ==
    cs = Chars("trustworthy") \/ cs = Chars("real")
isTrustworthy(cs) ==
    toLowerCase(cs) = Chars("trustworthy") \/ toLowerCase(cs) = Chars("real")

\* analysis.confidence || 0, analysis.summary || '...', analysis.model || '...'
confidenceOf(analysis) ==
    MathRound(IF Truthy(analysis.confidence) THEN analysis.confidence.n ELSE 0)
summaryOf(analysis) ==
    IF Truthy(analysis.summary) THEN analysis.summary.s ELSE NoSummary
modelOf(analysis) ==
    IF Truthy(analysis.model) THEN analysis.model.s ELSE DefaultModel

\* displayLabel: a falsy label takes the else branch (error label); a truthy
\* label that is no string has no toLowerCase, which throws a TypeError.
displayLabel(analysis) ==
    IF Truthy(analysis.label)
    THEN IF analysis.label.t # "string"
         THEN Outcome(EmptyBag, TRUE)
         ELSE Outcome(SetToBag({TrustLabel(isTrustworthy(analysis.label.s),
                                           confidenceOf(analysis),
                                           summaryOf(analysis),
                                           modelOf(analysis))}), FALSE)
    ELSE displayErrorLabel

\* The catch block of processSearchResult calls displayErrorLabel(result, url),
\* but url is a const of the try block: evaluating it throws a ReferenceError
\* before displayErrorLabel is entered, and the async function rejects.
catchBlock == Outcome(EmptyBag, TRUE)

tryCatch(out) == IF out.threw THEN catchBlock ELSE out

(***************************************************************************)
(* The network step.                                                       *)
(***************************************************************************)
Analysis(su, hd, d) == [success |-> su, hasData |-> hd, data |-> d]

\* analyzeUrlExtension after fetch settled: a transport error, a status
\* outside 2xx and a body that is no JSON all end in the catch, which
\* returns {success: false}.
analyzeUrlExtension(resp) ==
    IF resp.kind # "http" \/ ~ok(resp) \/ ~resp.json
    THEN Analysis(FALSE, FALSE, NoData)
    ELSE Analysis(resp.success, resp.hasData, resp.data)

(***************************************************************************)
(* The cache (a Map keyed by URL).                                         *)
(***************************************************************************)
EmptyCache == [k \in {} |-> NoData]
cacheHasMutNever(k) == FALSE
cacheHas(k) == k \in DOMAIN cache
cacheSet(k, v) == [x \in DOMAIN cache \cup {k} |-> IF x = k THEN v ELSE cache[x]]
cacheClearMutKeep == cache
cacheClear == EmptyCache

(***************************************************************************)
(* Eligibility and the synchronous part of a run.                          *)
(***************************************************************************)
shouldProcessResultMutNoUrl(e) ==
    /\ labels[e] = EmptyBag
    /\ proc[e] # "true"
    /\ Page[e].link

shouldProcessResult(e) ==
    /\ labels[e] = EmptyBag
    /\ proc[e] # "true"
    /\ Page[e].link
    /\ ~ ( includes(Page[e].href, <<"google.com">>)
           \/ includes(Page[e].href, <<"maps.", "google.com">>)
           \/ includes(Page[e].href, <<"images.", "google.com">>)
           \/ startsWith(Page[e].href, <<"javascript:">>) )

\* processSearchResult up to its first await or its return, for an element
\* that does (hadLoading) or does not hold a loading indicator: the mark
\* and the loading indicator it leaves, the labels it inserted, the
\* requests it issued, whether it threw and whether it changed the DOM.
\* A run that returns passes through the finally block.
\* The finally block: the mark and the loading indicator it leaves.
finallyBlockMutSkip == [proc |-> "true", loading |-> TRUE]
finallyBlock == [proc |-> "false", loading |-> FALSE]

Run(p, l, added, fetch, threw, mutated) ==
    [proc |-> p, loading |-> l, added |-> added, fetch |-> fetch,
     threw |-> threw, mutated |-> mutated]

processSearchResult(e, hadLoading) ==
    IF ~Page[e].link \/ ~Page[e].title
    THEN Run(finallyBlock.proc, finallyBlock.loading, EmptyBag, 0, FALSE,
             hadLoading /\ ~finallyBlock.loading)
    ELSE IF cacheHas(Page[e].href)
    THEN LET out == tryCatch(displayLabel(cache[Page[e].href]))
         IN  Run(finallyBlock.proc, finallyBlock.loading, out.added, 0, out.threw,
                 (hadLoading /\ ~finallyBlock.loading) \/ out.added # EmptyBag)
    ELSE Run("true", TRUE, EmptyBag, 1, FALSE, ~hadLoading)


(***************************************************************************)
(* Handlers.                                                               *)
(***************************************************************************)
NoFetch == [e \in Elements |-> 0]

\* The settings objects a SETTINGS_UPDATED message carries.
SettingsSnapshots ==
    [enabled : BOOLEAN, autoAnalyze : {TRUE}, cacheResults : BOOLEAN]

\* A message to the content script: its type and, for SETTINGS_UPDATED, its
\* settings (NoSettings for the types that carry none).
NoSettings == [enabled |-> FALSE, autoAnalyze |-> FALSE, cacheResults |-> FALSE]
Msg(type, s) == [type |-> type, settings |-> s]
NoMsg == Msg("none", NoSettings)
OtherTypes == {"OPEN_FEEDBACK"}
Messages ==
    {Msg("SETTINGS_UPDATED", s) : s \in SettingsSnapshots}
    \cup {Msg("CLEAR_CACHE", NoSettings)}
    \cup {Msg(type, NoSettings) : type \in OtherTypes}

\* What the last handler was (op), the element and response it was given,
\* the elements it started a run for, the requests it issued per element,
\* the elements whose run ended in an uncaught exception, the started
\* elements whose run is the first since a CLEAR_CACHE that found their URL
\* cached, and the elements removeAllLabels took a label from.
\* and the message it was sent (msg), and the started elements whose last
\* finished run had ended in failure with no retry click and no CLEAR_CACHE
\* since (again).
Event(op) ==
    [op |-> op, el |-> 0, resp |-> NoResp, started |-> {}, fetch |-> NoFetch,
     threw |-> {}, pending |-> {}, removed |-> {}, msg |-> NoMsg, again |-> {}]

\* A run ended in failure: with the error label or with an uncaught exception.
runFailed(out) == out.threw \/ BagIn(ErrorLabel, out.added)

\* The elements of a scan's or click's runs that ended in failure at once.
failedNow(S, r) == {e \in S : r[e].fetch = 0 /\ runFailed(r[e])}
\* The elements whose runs ended at once and well, with a label.
servedNow(S, r) == {e \in S : r[e].fetch = 0 /\ ~runFailed(r[e]) /\ r[e].added # EmptyBag}

\* waitForSearchResults: one more pending timeout (the model keeps at most
\* MaxTimers of them apart).
waitForSearchResults(t) == IF t < MaxTimers THEN t + 1 ELSE t

\* The MutationObserver callback of init, run after a handler that did
\* (mutated) or did not change the child list, with the settings the handler
\* left (enabled).
observer(t, mutated, enabled) ==
    IF phase = "running" /\ mutated /\ enabled THEN waitForSearchResults(t) ELSE t

Init ==
    /\ phase = "loading"
    /\ settings = [enabled |-> TRUE, autoAnalyze |-> TRUE, cacheResults |-> TRUE]
    /\ cache = EmptyCache
    /\ proc = [e \in Elements |-> "unset"]
    /\ loading = [e \in Elements |-> FALSE]
    /\ labels = [e \in Elements |-> EmptyBag]
    /\ inflight = [e \in Elements |-> 0]
    /\ timers = 0
    /\ ev = Event("constructor")
    /\ afterClear = {}
    /\ rewritten = {}
    /\ failed = {}
    /\ nin = NoData
    /\ nout = [done |-> FALSE, out |-> Outcome(EmptyBag, FALSE)]

\* A stored flag is unset, true or false; loadSettings reads it as !== false.
Stored == {"unset", "true", "false"}

\* init after loadSettings resolved: a disabled extension returns before it
\* installs the observer and the message listener.
LoadSettings(en, cr) ==
    /\ phase = "loading"
    /\ settings' = [enabled |-> en # "false", autoAnalyze |-> TRUE,
                    cacheResults |-> cr # "false"]
    /\ phase' = IF en # "false" THEN "running" ELSE "stopped"
    /\ timers' = IF en # "false" THEN waitForSearchResults(timers) ELSE timers
    /\ ev' = Event("init")
    /\ UNCHANGED <<cache, proc, loading, labels, inflight, afterClear, rewritten,
                   failed>>
    /\ UNCHANGED normVars

\* The page changes its own DOM: the observer's callback arms a scan.
PageMutation ==
    /\ phase = "running"
    /\ settings.enabled
    /\ timers < MaxTimers
    /\ timers' = observer(timers, TRUE, settings.enabled)
    /\ ev' = Event("mutation")
    /\ UNCHANGED <<phase, settings, cache, proc, loading, labels, inflight,
                   afterClear, rewritten, failed>>
    /\ UNCHANGED normVars

\* The forEach of processSearchResults over the elements E it finds
\* eligible: processSearchResult is async, an exception in it rejects its
\* promise and never reaches the loop, so every one of them gets its run.
forEachMutAbort(E) ==
    {e \in E : \A x \in E : x < e => ~processSearchResult(x, loading[x]).threw}
forEach(E) == E

\* The guard of processSearchResults.
scanEnabledMutAlways == TRUE
scanEnabled == settings.enabled

\* A timeout of waitForSearchResults fires: processSearchResults.
TimerFires ==
    /\ timers > 0
    /\ LET S == IF scanEnabled
                THEN forEach({e \in Elements : shouldProcessResult(e)}) ELSE {}
           r == [e \in Elements |-> processSearchResult(e, loading[e])]
       IN  /\ \A e \in S : inflight[e] + r[e].fetch <= MaxInflight
           /\ proc' = [e \in Elements |-> IF e \in S THEN r[e].proc ELSE proc[e]]
           /\ loading' = [e \in Elements |->
                             IF e \in S THEN r[e].loading ELSE loading[e]]
           /\ labels' = [e \in Elements |->
                            IF e \in S THEN insertLabel(labels[e], r[e].added)
                                       ELSE labels[e]]
           /\ inflight' = [e \in Elements |->
                              IF e \in S THEN inflight[e] + r[e].fetch ELSE inflight[e]]
           /\ timers' = observer(timers - 1, \E e \in S : r[e].mutated,
                                 settings.enabled)
           /\ ev' = [Event("scan") EXCEPT
                         !.started = S,
                         !.fetch = [e \in Elements |->
                                       IF e \in S THEN r[e].fetch ELSE 0],
                         !.threw = {e \in S : r[e].threw},
                         !.pending = S \cap afterClear,
                         !.again = S \cap failed]
           /\ afterClear' = afterClear \ S
           /\ failed' = (failed \ servedNow(S, r)) \cup failedNow(S, r)
    /\ UNCHANGED <<phase, settings, cache, rewritten>>
    /\ UNCHANGED normVars

\* fetch settles for a run suspended on element e: the rest of
\* analyzeUrlExtension and of processSearchResult, with its finally block.
Response(e, resp) ==
    /\ inflight[e] > 0
    /\ LET analysis == analyzeUrlExtension(resp)
           good == analysis.success /\ analysis.hasData
           out == IF good THEN tryCatch(displayLabel(analysis.data))
                          ELSE displayErrorLabel
       IN  /\ cache' = IF good /\ settings.cacheResults
                       THEN cacheSet(Page[e].href, analysis.data) ELSE cache
           /\ rewritten' = IF good /\ settings.cacheResults
                           THEN rewritten \cup {Page[e].href} ELSE rewritten
           /\ labels' = [labels EXCEPT ![e] = insertLabel(@, out.added)]
           /\ proc' = [proc EXCEPT ![e] = finallyBlock.proc]
           /\ loading' = [loading EXCEPT ![e] = finallyBlock.loading]
           /\ inflight' = [inflight EXCEPT ![e] = @ - 1]
           /\ timers' = observer(timers,
                                 \/ out.added # EmptyBag
                                 \/ (loading[e] /\ ~finallyBlock.loading),
                                 settings.enabled)
           /\ failed' = IF runFailed(out) THEN failed \cup {e} ELSE failed \ {e}
           /\ ev' = [Event("response") EXCEPT
                         !.el = e, !.resp = resp,
                         !.threw = IF out.threw THEN {e} ELSE {}]
    /\ UNCHANGED <<phase, settings, afterClear>>
    /\ UNCHANGED normVars

\* A click on the Retry button of an error label of element e.
RetryClick(e) ==
    /\ BagIn(ErrorLabel, labels[e])
    /\ LET r == processSearchResult(e, loading[e])
       IN  /\ inflight[e] + r.fetch <= MaxInflight
           /\ labels' = [labels EXCEPT
                            ![e] = insertLabel(@ (-) SetToBag({ErrorLabel}), r.added)]
           /\ proc' = [proc EXCEPT ![e] = r.proc]
           /\ loading' = [loading EXCEPT ![e] = r.loading]
           /\ inflight' = [inflight EXCEPT ![e] = @ + r.fetch]
           /\ timers' = observer(timers, TRUE, settings.enabled)
           /\ ev' = [Event("retry") EXCEPT
                         !.el = e, !.started = {e},
                         !.fetch = [x \in Elements |->
                                       IF x = e THEN r.fetch ELSE 0],
                         !.threw = IF r.threw THEN {e} ELSE {},
                         !.pending = {e} \cap afterClear]
           /\ afterClear' = afterClear \ {e}
           /\ failed' = IF r.fetch = 0 /\ runFailed(r)
                        THEN failed \cup {e} ELSE failed \ {e}
    /\ UNCHANGED <<phase, settings, cache, rewritten>>
    /\ UNCHANGED normVars

\* removeAllLabels: what it leaves of the marks, loading indicators and labels.
removedMarksMutKeep == proc
removedMarks == [e \in Elements |-> "unset"]
removedLoading == [e \in Elements |-> FALSE]
removedLabelsMutKeep == labels
removedLabels == [e \in Elements |-> EmptyBag]

labelled == {e \in Elements : labels[e] # EmptyBag}
anyRendered == labelled # {} \/ \E e \in Elements : loading[e]

\* handleMessage, case SETTINGS_UPDATED.
SettingsUpdated(s) ==
    /\ phase = "running"
    /\ settings' = s
    /\ IF ~s.enabled
       THEN /\ labels' = removedLabels
            /\ loading' = removedLoading
            /\ proc' = removedMarks
            /\ timers' = observer(timers, anyRendered, s.enabled)
       ELSE /\ timers' = waitForSearchResults(timers)
            /\ UNCHANGED <<labels, loading, proc>>
    /\ ev' = [Event("SETTINGS_UPDATED") EXCEPT
                  !.removed = IF ~s.enabled THEN labelled ELSE {},
                  !.msg = Msg("SETTINGS_UPDATED", s)]
    /\ UNCHANGED <<phase, cache, inflight, afterClear, rewritten, failed>>
    /\ UNCHANGED normVars

\* handleMessage, case CLEAR_CACHE.
ClearCache ==
    /\ phase = "running"
    /\ cache' = cacheClear
    /\ labels' = removedLabels
    /\ loading' = removedLoading
    /\ proc' = removedMarks
    /\ timers' = observer(IF settings.enabled
                          THEN waitForSearchResults(timers) ELSE timers,
                          anyRendered, settings.enabled)
    /\ afterClear' = afterClear \cup
                     {e \in Elements : Page[e].link /\ cacheHas(Page[e].href)}
    /\ rewritten' = {}
    /\ failed' = {}
    /\ ev' = [Event("CLEAR_CACHE") EXCEPT
                  !.removed = labelled, !.msg = Msg("CLEAR_CACHE", NoSettings)]
    /\ UNCHANGED <<phase, settings, inflight>>
    /\ UNCHANGED normVars

\* handleMessage with a type the switch has no case for.
OtherMessageMutClear(type) ==
    /\ phase = "running"
    /\ cache' = cacheClear
    /\ labels' = removedLabels
    /\ loading' = removedLoading
    /\ proc' = removedMarks
    /\ timers' = observer(IF settings.enabled
                          THEN waitForSearchResults(timers) ELSE timers,
                          anyRendered, settings.enabled)
    /\ ev' = [Event(type) EXCEPT !.msg = Msg(type, NoSettings)]
    /\ UNCHANGED <<phase, settings, inflight, afterClear, rewritten, failed>>
    /\ UNCHANGED normVars

OtherMessage(type) ==
    /\ phase = "running"
    /\ ev' = [Event(type) EXCEPT !.msg = Msg(type, NoSettings)]
    /\ UNCHANGED <<phase, settings, cache, proc, loading, labels, inflight,
                   timers, afterClear, rewritten, failed>>
    /\ UNCHANGED normVars

\* A message sent while init has not installed the listener (it awaits
\* loadSettings, or it returned because the extension is disabled): no
\* handler runs.
NoListener(m) ==
    /\ phase \in {"loading", "stopped"}
    /\ ev' = [Event("no listener") EXCEPT !.msg = m]
    /\ UNCHANGED <<phase, settings, cache, proc, loading, labels, inflight,
                   timers, afterClear, rewritten, failed>>
    /\ UNCHANGED normVars

Next ==
    \/ \E en \in Stored, cr \in Stored : LoadSettings(en, cr)
    \/ PageMutation
    \/ TimerFires
    \/ \E e \in Elements, resp \in Responses : Response(e, resp)
    \/ \E e \in Elements : RetryClick(e)
    \/ \E s \in SettingsSnapshots : SettingsUpdated(s)
    \/ ClearCache
    \/ \E type \in OtherTypes : OtherMessage(type)
    \/ \E m \in Messages : NoListener(m)

Spec == Init /\ [][Next]_vars


(***************************************************************************)
(* displayLabel on its own, over every combination of field values.       *)
(***************************************************************************)
LabelValues ==
    {Undef, Num(0), Num(50)} \cup
    {Str(Chars(w)) : w \in {"", "Real", "REAL", "real", "trustworthy",
                            "Trustworthy", "fake"}}
ConfidenceValues ==
    {Undef} \cup {Num(k) : k \in {-26, -25, 0, 4, 874, 875, 1000, 1004, 1500}}
TextValues == {Undef, Str(Chars("")), Str(Chars("ok")), Str(Chars("X"))}

AllData ==
    {Data(l, c, s, m) : l \in LabelValues, c \in ConfidenceValues,
                        s \in TextValues, m \in TextValues}

InitNorm ==
    /\ phase = "loading"
    /\ settings = [enabled |-> TRUE, autoAnalyze |-> TRUE, cacheResults |-> TRUE]
    /\ cache = EmptyCache
    /\ proc = [e \in Elements |-> "unset"]
    /\ loading = [e \in Elements |-> FALSE]
    /\ labels = [e \in Elements |-> EmptyBag]
    /\ inflight = [e \in Elements |-> 0]
    /\ timers = 0
    /\ ev = Event("constructor")
    /\ afterClear = {}
    /\ rewritten = {}
    /\ failed = {}
    /\ nin \in AllData
    /\ nout = [done |-> FALSE, out |-> Outcome(EmptyBag, FALSE)]

Normalize ==
    /\ ~nout.done
    /\ nout' = [done |-> TRUE, out |-> displayLabel(nin)]
    /\ UNCHANGED nin
    /\ UNCHANGED pageVars

SpecNorm == InitNorm /\ [][Normalize]_vars

(***************************************************************************)
(* Properties.                                                             *)
(***************************************************************************)
\* The labels of element e that the last handler left in place before any
\* run it started inserted its own: a retry click removes one error label.
Kept(e) ==
    IF ev'.op = "retry" /\ ev'.el = e
    THEN labels[e] (-) SetToBag({ErrorLabel}) ELSE labels[e]

\* A response's data is well-formed when its label is text (not empty).
WellFormed(d) == d.label.t = "string" /\ d.label.s # <<>>

\* C1 as stated: a run started for an element whose URL a successful
\* analysis has cached issues no network request and renders a label on the
\* element.
C1_CacheHitRenders ==
    [][\A e \in ev'.started :
          ( /\ Page[e].link
            /\ Page[e].href \in DOMAIN cache
            /\ WellFormed(cache[Page[e].href]) ) =>
              /\ ev'.fetch[e] = 0
              /\ BagCardinality(labels'[e]) > BagCardinality(Kept(e))]_vars

\* C1 (amended): a run started for an element whose URL is cached issues no
\* network request; if the element has a title it inserts exactly what
\* displayLabel yields for the cached value (and ends in an exception when
\* displayLabel throws on it); if the element has no title it inserts nothing.
C1_CacheHit ==
    [][\A e \in ev'.started :
          Page[e].link /\ Page[e].href \in DOMAIN cache =>
              /\ ev'.fetch[e] = 0
              /\ inflight'[e] = inflight[e]
              /\ cache' = cache
              /\ IF Page[e].title
                 THEN /\ labels'[e] =
                           Kept(e) (+) displayLabel(cache[Page[e].href]).added
                      /\ (e \in ev'.threw) = displayLabel(cache[Page[e].href]).threw
                 ELSE labels'[e] = Kept(e) /\ e \notin ev'.threw]_vars

\* A scan rendered the cached, well-formed value on element 1 without a request.
C1_Witness ==
    /\ ev.op = "scan"
    /\ 1 \in ev.started
    /\ UrlA \in DOMAIN cache
    /\ cache[UrlA] = DataReal
    /\ ev.fetch[1] = 0
    /\ labels[1] = displayLabel(DataReal).added

\* C2 as stated: the first run of an element after a CLEAR_CACHE that found
\* its URL cached issues exactly one network request.
C2_OneRequestAfterClear ==
    \A e \in ev.pending : ev.fetch[e] = 1

\* C2 (amended): the first run of an element after a CLEAR_CACHE that found
\* its URL cached issues exactly one network request if the element has a
\* title and no response has written the URL to the cache since the clear,
\* and none otherwise; no run issues more than one.
C2_OneRequestUnlessRewritten ==
    /\ \A e \in ev.started : ev.fetch[e] <= 1
    /\ \A e \in ev.pending :
          ev.fetch[e] = IF Page[e].title /\ Page[e].href \notin rewritten
                        THEN 1 ELSE 0

\* Element 1 was run for the first time after a clear and issued its request.
C2_Witness ==
    /\ 1 \in ev.pending
    /\ ev.fetch[1] = 1
    /\ inflight[1] > 0


\* The last handler was the continuation of a run after a response that
\* was a transport error or had a status outside 2xx.
FailedResponse(r) == r.kind = "transport" \/ (r.kind = "http" /\ ~(r.status \in 200..299))

\* A 2xx response whose body is JSON with success and data.
SuccessfulResponse(r) ==
    r.kind = "http" /\ r.status \in 200..299 /\ r.json /\ r.success /\ r.hasData

\* C3: the cache gains or changes an entry only in the continuation of a run
\* whose response was successful and well-formed, and only while
\* settings.cacheResults is true.
C3_CacheWriteOnlyWellFormed ==
    [][(\E k \in DOMAIN cache' : k \notin DOMAIN cache \/ cache'[k] # cache[k]) =>
          /\ ev'.op = "response"
          /\ SuccessfulResponse(ev'.resp)
          /\ WellFormed(ev'.resp.data)
          /\ settings.cacheResults]_vars

\* C4: every element carries at most one label.
C4_AtMostOneLabel ==
    \A e \in Elements : BagCardinality(labels[e]) <= 1

\* C5: after a successful response whose data has no label, or a label that
\* is no text, the run has ended without an uncaught exception and the
\* element carries the error label.
C5_MalformedLabelFails ==
    (ev.op = "response" /\ SuccessfulResponse(ev.resp) /\ ~WellFormed(ev.resp.data)) =>
        /\ ev.threw = {}
        /\ BagIn(ErrorLabel, labels[ev.el])

\* C6: after a transport error or a status outside 2xx the element carries
\* exactly one label, the error label with its Retry button, and the cache
\* is as it was.
C6_FailedRequestOneErrorLabel ==
    [][(ev'.op = "response" /\ FailedResponse(ev'.resp)) =>
          /\ labels'[ev'.el] = SetToBag({ErrorLabel})
          /\ ErrorLabel.retry
          /\ ev'.threw = {}
          /\ cache' = cache]_vars


\* The labels a stand-alone displayLabel call inserted.
Inserted == BagToSet(nout.out.added)

\* C7: the confidence of every trust label displayLabel renders is an
\* integer from 0 to 100.
C7_ConfidenceInRange ==
    nout.done =>
        \A l \in Inserted : l.kind = "trust" => l.confidence \in 0..100

\* Two texts are equal ignoring case: the same length and, position by
\* position, the same character or the two cases of one letter.
EqualIgnoringCase(a, b) ==
    /\ Len(a) = Len(b)
    /\ \A i \in 1..Len(a) :
          \/ a[i] = b[i]
          \/ \E j \in 1..Len(UpperCase) :
                {a[i], b[i]} = {UpperCase[j], LowerCase[j]}

\* A field is missing when it is undefined or the empty text.
Missing(v) == v.t = "undefined" \/ (v.t = "string" /\ v.s = <<>>)

\* C8: for a response whose label is text, displayLabel renders one trust
\* label; it is classed trustworthy exactly when the label equals
\* 'trustworthy' or 'real' ignoring case; its confidence is the integer
\* nearest to a numeric confidence (a half rounds up); its summary and
\* model are the given ones, or the placeholders when they are missing; and
\* the spec's scenario response gives trustworthy, 87, "ok", "X".
C8_Normalization ==
    (nout.done /\ WellFormed(nin)) =>
        /\ ~nout.out.threw
        /\ BagCardinality(nout.out.added) = 1
        /\ \A l \in Inserted :
              /\ l.kind = "trust"
              /\ l.trustworthy =
                    ( \/ EqualIgnoringCase(nin.label.s, Chars("trustworthy"))
                      \/ EqualIgnoringCase(nin.label.s, Chars("real")) )
              /\ nin.confidence.t = "number" =>
                    (10 * l.confidence - nin.confidence.n) \in -4..5
              /\ l.summary = IF Missing(nin.summary)
                             THEN <<"No summary available">> ELSE nin.summary.s
              /\ l.model = IF Missing(nin.model)
                           THEN <<"BART/LLaMA">> ELSE nin.model.s
              /\ nin = DataReal =>
                    l = TrustLabel(TRUE, 87, Chars("ok"), Chars("X"))

\* displayLabel rendered the spec's scenario response: 'Real' with 87.4.
C8_Witness ==
    /\ nout.done
    /\ nin = DataReal
    /\ nout.out.added = SetToBag({TrustLabel(TRUE, 87, Chars("ok"), Chars("X"))})


\* C9: the handler of SETTINGS_UPDATED with enabled false leaves no label
\* and no loading indicator on any element, and a scan that runs while
\* settings.enabled is false starts no run, issues no request and leaves
\* every label, loading indicator and mark as it was.
C9_DisableRemovesAndHaltsScans ==
    [][ /\ (ev'.op = "SETTINGS_UPDATED" /\ ~settings'.enabled) =>
              \A e \in Elements : labels'[e] = EmptyBag /\ ~loading'[e]
        /\ (ev'.op = "scan" /\ ~settings.enabled) =>
              /\ ev'.started = {}
              /\ ev'.fetch = NoFetch
              /\ labels' = labels
              /\ loading' = loading
              /\ inflight' = inflight
              /\ proc' = proc ]_vars

\* A scan ran while the extension was disabled (its timer was armed before
\* the disable, no timer is armed after it), with element 1 eligible and
\* its URL cached, and started nothing.
C9_Witness ==
    /\ ev.op = "scan"
    /\ ~settings.enabled
    /\ shouldProcessResult(1)
    /\ UrlA \in DOMAIN cache
    /\ ev.started = {}

AsksForScan ==
    \/ ev.msg.type = "SETTINGS_UPDATED" /\ ev.msg.settings.enabled
    \/ ev.msg.type = "CLEAR_CACHE" /\ settings.enabled

\* C11: once a SETTINGS_UPDATED with enabled true, or a CLEAR_CACHE while
\* enabled, has been sent to the content script, a scan is pending (a
\* timeout of waitForSearchResults is armed), whatever the stored enabled
\* flag was when the content script started.
C11_MessageTriggersScan ==
    AsksForScan => timers > 0

\* The elements for which the last handler brought a run of
\* processSearchResult to its end: the runs a scan or a retry click started
\* that returned without a request, and the run a response resumed.
Finished ==
    {e \in ev.started : ev.fetch[e] = 0}
    \cup (IF ev.op = "response" THEN {ev.el} ELSE {})

\* C12: a run of processSearchResult that has ended, on whichever path,
\* leaves its element with the processing mark 'false' and without a
\* loading indicator.
C12_FinishedRunCleansUp ==
    \A e \in Finished : proc[e] = "false" /\ ~loading[e]

\* A run of element 1 ended in an uncaught exception after its response,
\* and the element has neither the mark nor a loading indicator.
C12_Witness ==
    /\ ev.op = "response"
    /\ ev.el = 1
    /\ ev.threw = {1}
    /\ proc[1] = "false"
    /\ ~loading[1]

C14_OneRunInFlight ==
    \A e \in Elements : inflight[e] <= 1

\* C15: a click on Retry leaves the element marked as processing and has
\* issued exactly one network request for it.
C15_RetryIssuesRequest ==
    ev.op = "retry" =>
        /\ proc[ev.el] = "true"
        /\ ev.fetch[ev.el] = 1
        /\ inflight[ev.el] > 0

\* C16: handleMessage given a message whose type is neither
\* SETTINGS_UPDATED nor CLEAR_CACHE leaves the settings, the cache, the
\* labels, the loading indicators, the processing marks, the pending
\* timeouts and the runs in flight as they were.
C16_OtherMessageIgnored ==
    [][(ev'.op = ev'.msg.type /\ ev'.op \notin {"SETTINGS_UPDATED", "CLEAR_CACHE"}) =>
          /\ settings' = settings
          /\ cache' = cache
          /\ labels' = labels
          /\ loading' = loading
          /\ proc' = proc
          /\ timers' = timers
          /\ inflight' = inflight]_vars

\* A message of another type was handled while the extension was enabled,
\* with the URL cached, a label on element 1 and a scan pending.
C16_Witness ==
    /\ ev.op = "OPEN_FEEDBACK"
    /\ ev.msg.type = "OPEN_FEEDBACK"
    /\ settings.enabled
    /\ UrlA \in DOMAIN cache
    /\ labels[1] # EmptyBag
    /\ timers > 0

\* C17: while settings.enabled is false, no element carries a label.
C17_NoLabelWhileDisabled ==
    ~settings.enabled => \A e \in Elements : labels[e] = EmptyBag

\* The element's link targets the host search domain (the search itself,
\* its maps or its images), or is a javascript: link.
HostDomain == "google.com"
TargetsHost(e) ==
    \/ \E i \in DOMAIN Page[e].href : Page[e].href[i] = HostDomain
    \/ (Page[e].href # <<>> /\ Page[e].href[1] = "javascript:")

\* An element the pipeline has to skip: no link, no title, or such a link.
Ineligible(e) == ~Page[e].link \/ ~Page[e].title \/ TargetsHost(e)

\* C18: an element without a link, without a title, or whose link targets
\* the host search domain or is a javascript: link never has a request
\* issued for it and never carries a label.
C18_IneligibleSkipped ==
    \A e \in Elements :
        Ineligible(e) =>
            /\ ev.fetch[e] = 0
            /\ inflight[e] = 0
            /\ labels[e] = EmptyBag

\* A scan issued the request of element 1 and started the run of the
\* title-less element 2, which returned; nothing was issued or rendered for
\* the elements 2 to 6.
C18_Witness ==
    /\ ev.op = "scan"
    /\ ev.started = {1, 2}
    /\ ev.fetch[1] = 1
    /\ \A e \in Elements \ {1} :
          Ineligible(e) /\ ev.fetch[e] = 0 /\ labels[e] = EmptyBag

\* C19: a scan issues no request for an element whose last finished run
\* ended in failure (with the error label or with an exception) and for
\* which there has been neither a retry click nor a CLEAR_CACHE since.
C19_NoAutomaticRetry ==
    ev.op = "scan" => \A e \in ev.again : ev.fetch[e] = 0

\* The enabled extension is at rest: the listener is installed, no scan is
\* pending and no request is in flight.
Quiescent ==
    /\ phase = "running"
    /\ settings.enabled
    /\ timers = 0
    /\ \A e \in Elements : inflight[e] = 0

\* C20: whenever the enabled extension is at rest, every element with a
\* link, a title and a link that does not target the host carries exactly
\* one label.
C20_QuiescentAllLabelled ==
    Quiescent =>
        \A e \in Elements : ~Ineligible(e) => BagCardinality(labels[e]) = 1

====
